---- MODULE Spec2Model ----
(***************************************************************************)
(* Bulk selection of the LoRA page: BulkManager (static/js/managers/       *)
(* BulkManager.js), the card component (createLoraCard,                    *)
(* updateCardsForBulkMode) and the page wiring (static/js/loras.js).       *)
(*                                                                         *)
(* A file path is an integer 1..NumKeys.  state.selectedLoras is the set   *)
(* of its members: the order in which a JS Set is iterated only decides    *)
(* the order of the tokens copyAllLorasSyntax joins and of the thumbnails  *)
(* in the strip, and copyAllLorasSyntax is run on every order.  The DOM is *)
(* of rendered cards (cards), the bulk button and panel, the selected      *)
(* count element and at most one preview strip element.  The pending       *)
(* setTimeout callbacks on the bulk panel are the entries of timers, in    *)
(* the order they were scheduled; the removal callback of the strip        *)
(* element is removePending.                                               *)
(* An exception leaves a handler at the point where it is thrown: every    *)
(* operator takes the page state s and returns the page state the handler  *)
(* leaves, with s.threw set when it ended by an uncaught exception.        *)
(* The style.display of the card action buttons and the 'visible' class    *)
(* of the strip element (a CSS transition) are not modelled: no operation  *)
(* reads them.                                                             *)
(*                                                                         *)
(* The filter managers (FilterManager, RecipeFilterManager) are modelled   *)
(* in SpecFilter: one manager instance on one page, its criteria, the      *)
(* localStorage entry of its key, the filter panel and its tag elements,   *)
(* the two fetches of a page load and the reload calls still pending.      *)
(***************************************************************************)
EXTENDS Integers, Sequences, FiniteSets, TLC

\* ---- bounds ----
NumKeys == 2
MaxTimers == 2
StackLimit == 6

Keys == 1..NumKeys

\* ---- texts that card.dataset.usage_tips can hold ----
TipsStrength == "{\"strength\":0.8}"
TipsZero == "{\"strength\":0}"
TipsEmptyObject == "{}"
TipsEmpty == ""
TipsUndefined == "undefined"
TipsNull == "null"

UsageTipsTexts ==
    {TipsStrength, TipsZero, TipsEmptyObject, TipsEmpty, TipsUndefined, TipsNull}

\* lora.usage_tips of the listing entry of key k, as card.dataset stores it:
\* the first entry has a strength, the second has no usage_tips
ListingTips(k) ==
    CASE k = 1 -> TipsStrength
      [] k = 2 -> TipsUndefined
      [] OTHER -> TipsEmptyObject

\* ---- state ----
VARIABLES
    bulkMode,            \* state.bulkMode
    selectedLoras,       \* state.selectedLoras
    loraMetadataCache,   \* state.loraMetadataCache: key -> metadata
    cards,               \* rendered .lora-card elements: key -> [usage_tips, selected]
    btnActive,           \* bulkBtn has class 'active'
    panelHidden,         \* bulkPanel has class 'hidden'
    panelVisible,        \* bulkPanel has class 'visible'
    bodyBulk,            \* document.body has class 'bulk-mode'
    isStripVisible,      \* this.isStripVisible
    strip,               \* the .selected-thumbnails-strip element in the document
    timers,              \* pending setTimeout callbacks on bulkPanel, in scheduling order
    removePending,       \* a 300 ms callback of hideThumbnailStrip is pending
    countText,           \* #selectedCount: number shown and caret icon
    toasts,              \* showToast calls of the latest copyAllLorasSyntax call
    clipboard,           \* writeText calls of the latest copyAllLorasSyntax call
    copyPending,         \* tokens of the writeText promise still pending (0: none)
    lastOp,              \* the latest handler or callback that ran
    repeated,            \* the handler before it was the same handler
    threw,               \* the latest handler ended by an uncaught exception
    expect,              \* toggle parity applied to the set the toggle run started from
    context,             \* the filter manager's class, this.currentPage, and whether
                         \* window.recipeManager / window.checkpointManager exists
    filters,             \* this.filters
    tagsLoaded,          \* this.tagsLoaded
    localStorage,        \* localStorage: key -> stored text
    pageFilters,         \* getCurrentPageState().filters
    filterPanelHidden,   \* filterPanel has class 'hidden'
    filterButtonActive,  \* filterButton has class 'active'
    activeFiltersCount,  \* #activeFiltersCount: shown (inline-flex) and its text
    tagsContainer,       \* what #modelTagsFilter holds
    tagEls,              \* the .tag-filter elements: tag -> has class 'active'
    baseModelTags,       \* what #baseModelTags holds
    baseEls,             \* the .base-model-tag elements: name -> has class 'active'
    fetching,            \* the fetches of loadTopTags and createBaseModelTags in flight
    reloads,             \* calls of the reload collaborator not yet settled
    href,                \* the latest assignment to window.location.href
    topTagsStarted,      \* number of loadTopTags calls of this manager instance
    filterOp,            \* the latest filter event: name, arguments and outcome
    requests,            \* the criteria each pending reload of the listing was asked with
    listing,             \* the criteria the rendered listing was fetched with
    isUpdating,          \* the flag of the LoRA loader node's two callbacks
    inputValue,          \* node.widgets[0].value: the <lora:name:strength> tags of the text
    lorasValue,          \* node.lorasWidget.value
    loaderOp,            \* the latest event of the loader node and how its callback ran
    savePc,              \* where saveRecipe() stands: the await it is suspended at
    recipeName,          \* this.recipeName is not empty
    missingCount,        \* this.missingLoras.length
    loraRoot,            \* #importLoraRoot has a value
    downloadIndex,       \* i + 1 of the download loop
    completedDownloads,  \* completedDownloads
    downloads,           \* the LoRAs fetch('/api/download-lora') was called for, in order
    outcomes,            \* how the download fetches settled, in order
    ws,                  \* the progress WebSocket
    importModalOpen,     \* the import modal is open
    loading,             \* the loading overlay and the progress it shows
    importToasts         \* the showToast calls of saveRecipe()

\* the state of the selection manager and of the page it works on
bulkVars == <<bulkMode, selectedLoras, loraMetadataCache, cards, btnActive,
              panelHidden, panelVisible, bodyBulk, isStripVisible, strip, timers,
              removePending, countText, toasts, clipboard, copyPending, lastOp,
              repeated, threw, expect>>

\* the state of the filter manager and of the page it works on
filterVars == <<context, filters, tagsLoaded, localStorage, pageFilters,
                filterPanelHidden, filterButtonActive, activeFiltersCount,
                tagsContainer, tagEls, baseModelTags, baseEls, fetching, reloads,
                href, topTagsStarted, filterOp>>

\* the listing of the page and the reloads it awaits, request by request
reloadVars == <<requests, listing>>

\* the LoRA loader node: the closure of nodeCreated and its two widgets
loaderVars == <<isUpdating, inputValue, lorasValue, loaderOp>>

\* ImportManager.saveRecipe and the page it works on
importVars == <<savePc, recipeName, missingCount, loraRoot, downloadIndex,
                completedDownloads, downloads, outcomes, ws, importModalOpen,
                loading, importToasts>>

vars == <<bulkVars, filterVars, reloadVars, loaderVars, importVars>>

\* what the selection manager leaves alone
nonBulkVars == <<filterVars, reloadVars, loaderVars, importVars>>

\* what an event of the filter manager leaves alone, the listing apart
nonFilterVars == <<bulkVars, loaderVars, importVars>>

\* the page state the handlers read and write
pageVars == <<bulkMode, selectedLoras, loraMetadataCache, cards, btnActive,
              panelHidden, panelVisible, bodyBulk, isStripVisible, strip,
              timers, removePending, countText>>

NoStrip == [present |-> FALSE, thumbs |-> {}]

InitialCount == [count |-> 0, caret |-> "none", caretShown |-> FALSE]

\* Set.prototype.add / delete / has / size
SetAdd(set, k) == set \cup {k}
SetDelete(set, k) == set \ {k}
SetHas(set, k) == k \in set
Size(set) == Cardinality(set)

\* Map.prototype.set
MapSet(map, k, v) == [x \in DOMAIN map \cup {k} |-> IF x = k THEN v ELSE map[x]]

\* card.dataset.file_name of the card of key k
FileName(k) == k

\* the snapshot both toggleCardSelection and applySelectionState store
CardMetadata(k, card) == [fileName |-> FileName(k), usageTips |-> card.usage_tips]

Cur ==
    [bulkMode |-> bulkMode, sel |-> selectedLoras, cache |-> loraMetadataCache,
     cards |-> cards, btnActive |-> btnActive, panelHidden |-> panelHidden,
     panelVisible |-> panelVisible, bodyBulk |-> bodyBulk,
     isStripVisible |-> isStripVisible, strip |-> strip, timers |-> timers,
     removePending |-> removePending,
     countText |-> countText, threw |-> FALSE]

Throw(s) == [s EXCEPT !.threw = TRUE]

\* ---- BulkManager ----
RECURSIVE updateSelectedCount(_, _), hideThumbnailStrip(_, _)

\* d is the depth of the call stack; a call deeper than StackLimit is the
\* RangeError of the engine.  The callback hideThumbnailStrip schedules
\* removes the element it captured if it is still in the document; a second
\* callback for the same element finds it removed and does nothing, so one
\* pending callback stands for all of them.
updateSelectedCount(s, d) ==
    IF d > StackLimit THEN Throw(s)
    ELSE LET s1 == [s EXCEPT !.countText =
                        [count |-> Size(s.sel),
                         caret |-> IF s.isStripVisible THEN "down" ELSE "up",
                         caretShown |-> Size(s.sel) > 0]]
         IN  IF Size(s.sel) = 0 THEN hideThumbnailStrip(s1, d + 1) ELSE s1

hideThumbnailStrip(s, d) ==
    IF d > StackLimit THEN Throw(s)
    ELSE IF ~s.strip.present THEN s
    ELSE LET s1 == [s EXCEPT !.isStripVisible = FALSE]
             s2 == updateSelectedCount(s1, d + 1)
         IN  IF s2.threw THEN s2 ELSE [s2 EXCEPT !.removePending = TRUE]

updateThumbnailStrip(s) ==
    IF ~s.strip.present THEN s
    ELSE [s EXCEPT !.strip.thumbs = {k \in s.sel : k \in DOMAIN s.cache}]

\* clearSelection that also empties the metadata cache
clearSelection_ClearCache(s, d) ==
    LET s1 == [s EXCEPT !.cards = [k \in DOMAIN s.cards |->
                                     [s.cards[k] EXCEPT !.selected = FALSE]],
                        !.sel = {}, !.cache = <<>>]
        s2 == updateSelectedCount(s1, d + 1)
    IN  IF s2.threw THEN s2 ELSE hideThumbnailStrip(s2, d + 1)

clearSelection(s, d) ==
    LET s1 == [s EXCEPT !.cards = [k \in DOMAIN s.cards |->
                                     [s.cards[k] EXCEPT !.selected = FALSE]],
                        !.sel = {}]
        s2 == updateSelectedCount(s1, d + 1)
    IN  IF s2.threw THEN s2 ELSE hideThumbnailStrip(s2, d + 1)

\* toggleCardSelection whose deselect branch forgets selectedLoras.delete
toggleCardSelection_NoDelete(s, k, d) ==
    LET card == s.cards[k]
        s1 == IF card.selected
              THEN [s EXCEPT !.cards[k].selected = FALSE]
              ELSE [s EXCEPT !.cards[k].selected = TRUE, !.sel = SetAdd(@, k),
                             !.cache = MapSet(@, k, CardMetadata(k, card))]
        s2 == updateSelectedCount(s1, d + 1)
    IN  IF s2.threw THEN s2
        ELSE IF s2.isStripVisible THEN updateThumbnailStrip(s2) ELSE s2

\* toggleCardSelection that does not snapshot the card into the cache
toggleCardSelection_NoCache(s, k, d) ==
    LET card == s.cards[k]
        s1 == IF card.selected
              THEN [s EXCEPT !.cards[k].selected = FALSE, !.sel = SetDelete(@, k)]
              ELSE [s EXCEPT !.cards[k].selected = TRUE, !.sel = SetAdd(@, k)]
        s2 == updateSelectedCount(s1, d + 1)
    IN  IF s2.threw THEN s2
        ELSE IF s2.isStripVisible THEN updateThumbnailStrip(s2) ELSE s2

toggleCardSelection(s, k, d) ==
    LET card == s.cards[k]
        s1 == IF card.selected
              THEN [s EXCEPT !.cards[k].selected = FALSE, !.sel = SetDelete(@, k)]
              ELSE [s EXCEPT !.cards[k].selected = TRUE, !.sel = SetAdd(@, k),
                             !.cache = MapSet(@, k, CardMetadata(k, card))]
        s2 == updateSelectedCount(s1, d + 1)
    IN  IF s2.threw THEN s2
        ELSE IF s2.isStripVisible THEN updateThumbnailStrip(s2) ELSE s2

RECURSIVE applyToCards(_, _)
\* the forEach of applySelectionState over the cards not yet visited
applyToCards(s, todo) ==
    IF todo = {} THEN s
    ELSE LET k == CHOOSE x \in todo : \A y \in todo : x <= y
             s1 == IF SetHas(s.sel, k)
                   THEN [s EXCEPT !.cards[k].selected = TRUE,
                                  !.cache = MapSet(@, k, CardMetadata(k, s.cards[k]))]
                   ELSE [s EXCEPT !.cards[k].selected = FALSE]
         IN  applyToCards(s1, todo \ {k})

\* applySelectionState without the early return outside selection mode
applySelectionState_NoGuard(s, d) ==
    updateSelectedCount(applyToCards(s, DOMAIN s.cards), d + 1)

RECURSIVE toggleOnCards(_, _)
toggleOnCards(s, todo) ==
    IF todo = {} THEN s
    ELSE LET k == CHOOSE x \in todo : \A y \in todo : x <= y
             s1 == IF SetHas(s.sel, k)
                   THEN [s EXCEPT !.cards[k].selected = ~@,
                                  !.cache = MapSet(@, k, CardMetadata(k, s.cards[k]))]
                   ELSE [s EXCEPT !.cards[k].selected = FALSE]
         IN  toggleOnCards(s1, todo \ {k})

\* applySelectionState with classList.toggle in place of classList.add
applySelectionState_Toggle(s, d) ==
    IF ~s.bulkMode THEN s
    ELSE updateSelectedCount(toggleOnCards(s, DOMAIN s.cards), d + 1)

applySelectionState(s, d) ==
    IF ~s.bulkMode THEN s
    ELSE updateSelectedCount(applyToCards(s, DOMAIN s.cards), d + 1)

showThumbnailStrip(s, d) ==
    LET s1 == [s EXCEPT !.strip = [present |-> TRUE, thumbs |-> {}]]
        s2 == updateThumbnailStrip(s1)
        s3 == [s2 EXCEPT !.isStripVisible = TRUE]
    IN  updateSelectedCount(s3, d + 1)

toggleThumbnailStrip(s, d) ==
    IF Size(s.sel) = 0 THEN s
    ELSE IF s.strip.present THEN hideThumbnailStrip(s, d + 1)
    ELSE showThumbnailStrip(s, d + 1)

\* deselectItem that leaves the card marked
deselectItem_NoUnmark(s, k, d) ==
    LET s2 == [s EXCEPT !.sel = SetDelete(@, k)]
        s3 == updateSelectedCount(s2, d + 1)
        s4 == updateThumbnailStrip(s3)
    IN  IF s3.threw THEN s3
        ELSE IF Size(s4.sel) = 0 THEN hideThumbnailStrip(s4, d + 1)
        ELSE s4

\* deselectItem that does not refresh the strip
deselectItem_NoRefresh(s, k, d) ==
    LET s1 == IF k \in DOMAIN s.cards
              THEN [s EXCEPT !.cards[k].selected = FALSE]
              ELSE s
        s2 == [s1 EXCEPT !.sel = SetDelete(@, k)]
        s3 == updateSelectedCount(s2, d + 1)
    IN  IF s3.threw THEN s3
        ELSE IF Size(s3.sel) = 0 THEN hideThumbnailStrip(s3, d + 1)
        ELSE s3

deselectItem(s, k, d) ==
    LET s1 == IF k \in DOMAIN s.cards
              THEN [s EXCEPT !.cards[k].selected = FALSE]
              ELSE s
        s2 == [s1 EXCEPT !.sel = SetDelete(@, k)]
        s3 == updateSelectedCount(s2, d + 1)
        s4 == updateThumbnailStrip(s3)
    IN  IF s3.threw THEN s3
        ELSE IF Size(s4.sel) = 0 THEN hideThumbnailStrip(s4, d + 1)
        ELSE s4

\* ---- card component ----
\* the card createLoraCard returns for a listing entry with the given usage tips
createLoraCard(s, k, tips) ==
    [usage_tips |-> tips, selected |-> s.bulkMode /\ SetHas(s.sel, k)]

updateCardsForBulkMode(s, isBulkMode, d) ==
    LET s1 == [s EXCEPT !.bulkMode = isBulkMode, !.bodyBulk = isBulkMode]
    IN  IF isBulkMode THEN applySelectionState(s1, d + 1) ELSE s1

\* toggleBulkMode that does not clear the selection on exit
toggleBulkMode_NoClear(s, d) ==
    LET s1 == [s EXCEPT !.bulkMode = ~s.bulkMode, !.btnActive = ~s.bulkMode]
        s2 == IF s1.bulkMode
              THEN [s1 EXCEPT !.panelHidden = FALSE,
                              !.timers = Append(@, "panelVisible")]
              ELSE hideThumbnailStrip(
                       [s1 EXCEPT !.panelVisible = FALSE,
                                  !.timers = Append(@, "panelHidden")],
                       d + 1)
    IN  IF s2.threw THEN s2 ELSE updateCardsForBulkMode(s2, s2.bulkMode, d + 1)

toggleBulkMode(s, d) ==
    LET s1 == [s EXCEPT !.bulkMode = ~s.bulkMode, !.btnActive = ~s.bulkMode]
        s2 == IF s1.bulkMode
              THEN [s1 EXCEPT !.panelHidden = FALSE,
                              !.timers = Append(@, "panelVisible")]
              ELSE hideThumbnailStrip(
                       [s1 EXCEPT !.panelVisible = FALSE,
                                  !.timers = Append(@, "panelHidden")],
                       d + 1)
        s3 == updateCardsForBulkMode(s2, s2.bulkMode, d + 1)
    IN  IF s2.threw THEN s2
        ELSE IF s3.threw THEN s3
        ELSE IF ~s3.bulkMode THEN clearSelection(s3, d + 1)
        ELSE s3

\* ---- copyAllLorasSyntax ----
\* JSON.parse on the texts of UsageTipsTexts; a strength is the text the
\* template literal prints for the number
JSONParse(text) ==
    CASE text = TipsStrength -> [kind |-> "object", strength |-> "0.8"]
      [] text = TipsZero -> [kind |-> "object", strength |-> "0"]
      [] text = TipsEmptyObject -> [kind |-> "object", strength |-> "undefined"]
      [] text = TipsNull -> [kind |-> "null", strength |-> "undefined"]
      [] OTHER -> [kind |-> "SyntaxError", strength |-> "undefined"]

\* x || y on what usageTips.strength can be
Falsy(strength) == strength \in {"undefined", "0"}

RECURSIVE copyLoop(_, _, _, _, _)
\* the for...of loop from position i on
copyLoop(sel, cache, i, loraSyntaxes, missingLoras) ==
    IF i > Len(sel)
    THEN [loraSyntaxes |-> loraSyntaxes, missingLoras |-> missingLoras, threw |-> FALSE]
    ELSE IF sel[i] \in DOMAIN cache
    THEN LET metadata == cache[sel[i]]
             usageTips == JSONParse(IF metadata.usageTips = TipsEmpty
                                    THEN TipsEmptyObject ELSE metadata.usageTips)
             strength == IF Falsy(usageTips.strength) THEN "1" ELSE usageTips.strength
         IN  IF usageTips.kind # "object"
             THEN [loraSyntaxes |-> loraSyntaxes, missingLoras |-> missingLoras,
                   threw |-> TRUE]
             ELSE copyLoop(sel, cache, i + 1,
                           Append(loraSyntaxes,
                                  [fileName |-> metadata.fileName, strength |-> strength]),
                           missingLoras)
    ELSE copyLoop(sel, cache, i + 1, loraSyntaxes, Append(missingLoras, sel[i]))

Toast(message, n, type) == [message |-> message, n |-> n, type |-> type]

\* copyAllLorasSyntax without the check for an empty token list
copyAllLorasSyntax_NoEmptyCheck(sel, cache) ==
    IF Len(sel) = 0
    THEN [toasts |-> <<Toast("No LoRAs selected", 0, "warning")>>,
          clipboard |-> <<>>, pending |-> 0, threw |-> FALSE]
    ELSE LET r == copyLoop(sel, cache, 1, <<>>, <<>>)
             warned == IF Len(r.missingLoras) > 0
                       THEN <<Toast("Missing data for LoRAs", Len(r.missingLoras), "warning")>>
                       ELSE <<>>
         IN  IF r.threw
             THEN [toasts |-> <<>>, clipboard |-> <<>>, pending |-> 0, threw |-> TRUE]
             ELSE [toasts |-> warned, clipboard |-> <<r.loraSyntaxes>>,
                   pending |-> 1, threw |-> FALSE]

\* copyAllLorasSyntax up to its await, sel being state.selectedLoras in the
\* order it is iterated: the toasts shown, the writeText calls made, the
\* number of tokens of the pending write
copyAllLorasSyntax(sel, cache) ==
    IF Len(sel) = 0
    THEN [toasts |-> <<Toast("No LoRAs selected", 0, "warning")>>,
          clipboard |-> <<>>, pending |-> 0, threw |-> FALSE]
    ELSE LET r == copyLoop(sel, cache, 1, <<>>, <<>>)
             warned == IF Len(r.missingLoras) > 0
                       THEN <<Toast("Missing data for LoRAs", Len(r.missingLoras), "warning")>>
                       ELSE <<>>
         IN  IF r.threw
             THEN [toasts |-> <<>>, clipboard |-> <<>>, pending |-> 0, threw |-> TRUE]
             ELSE IF Len(r.loraSyntaxes) = 0
             THEN [toasts |-> Append(warned, Toast("No valid LoRAs to copy", 0, "error")),
                   clipboard |-> <<>>, pending |-> 0, threw |-> FALSE]
             ELSE [toasts |-> warned, clipboard |-> <<r.loraSyntaxes>>,
                   pending |-> Len(r.loraSyntaxes), threw |-> FALSE]

\* ---- setTimeout ----
RevealDelay == 10
PanelHideDelay == 400

Delay(timer) ==
    CASE timer = "panelVisible" -> RevealDelay
      [] timer = "panelHidden" -> PanelHideDelay

\* A timer is due before every timer scheduled after it with the same or a
\* longer delay; it may fire before or after a later timer with a shorter one.
CanFire(i) == \A j \in 1..(i - 1) : Delay(timers[j]) > Delay(timers[i])

RemoveAt(seq, i) == [j \in 1..(Len(seq) - 1) |-> IF j < i THEN seq[j] ELSE seq[j + 1]]

\* ---- the renderings and stores the model ranges over ----
Renderings == {[k \in R |-> ListingTips(k)] : R \in SUBSET Keys}

RECURSIVE Orders(_)
\* the insertion orders of a set of keys
Orders(S) ==
    IF S = {} THEN {<<>>}
    ELSE UNION {{Append(o, k) : o \in Orders(S \ {k})} : k \in S}

MetadataCaches ==
    UNION {[D -> {[fileName |-> FileName(k), usageTips |-> t] :
                      k \in Keys, t \in UsageTipsTexts}] : D \in SUBSET Keys}

\* ---- filter managers: FilterManager and RecipeFilterManager ----
\* A tag name is an integer 1..NumTags.  A filter manager is the record f of its fields, the
\* elements it works on and the calls it has made; an operator returns the
\* record the code leaves, f.threw set when it ended by an uncaught exception
\* (for an async method: when its promise rejects).
\* The text of #activeFiltersCount is its text while it is shown: nothing
\* reads it, and display 'none' hides what the code leaves in it.
NumTags == 2

Tags == 1..NumTags

\* model.name of the base models the server lists
BaseModelNames == {"SDXL"}

\* the values a field of this.filters or of a stored document can hold
Arr(seq) == [t |-> "array", v |-> seq]
\* the string "x": it contains no tag name
StringX == [t |-> "string", v |-> <<>>]
Null == [t |-> "null", v |-> <<>>]
\* undefined; in a stored document: the key is absent
Undefined == [t |-> "undefined", v |-> <<>>]

EmptyFilters == [baseModel |-> Arr(<<>>), tags |-> Arr(<<>>)]

IsArray(v) == v.t = "array"

\* v.includes(x)
Includes(v, x) == IsArray(v) /\ \E i \in DOMAIN v.v : v.v[i] = x

\* v.length
Length(v) == IF IsArray(v) THEN Len(v.v) ELSE 1

\* v.push(x), v.filter(y => y !== x) and v.join(',') exist on arrays only
HasArrayMethods(v) == IsArray(v)

Push(v, x) == Arr(Append(v.v, x))

Without(v, x) == Arr(SelectSeq(v.v, LAMBDA y : y # x))

\* v || []
OrEmptyArray(v) == IF v.t \in {"undefined", "null"} THEN Arr(<<>>) ELSE v

\* a stringify of the base models alone
JSONStringify_NoTags(fl) ==
    [kind |-> "object",
     baseModel |-> IF fl.baseModel.t = "undefined" THEN Undefined ELSE fl.baseModel,
     tags |-> Undefined]

\* JSON.stringify(this.filters): a key whose value is undefined is left out
JSONStringify(fl) ==
    [kind |-> "object",
     baseModel |-> IF fl.baseModel.t = "undefined" THEN Undefined ELSE fl.baseModel,
     tags |-> IF fl.tags.t = "undefined" THEN Undefined ELSE fl.tags]

\* stored texts that JSON.parse rejects, and the text "null"
InvalidText == [kind |-> "invalid", baseModel |-> Undefined, tags |-> Undefined]
NullText == [kind |-> "null", baseModel |-> Undefined, tags |-> Undefined]

\* the texts localStorage may hold under the manager's key when the page loads
StoredTexts ==
    {InvalidText, NullText,
     [kind |-> "object", baseModel |-> Undefined, tags |-> Undefined],
     [kind |-> "object", baseModel |-> Null, tags |-> Arr(<<1>>)],
     [kind |-> "object", baseModel |-> Arr(<<>>), tags |-> StringX],
     [kind |-> "object", baseModel |-> Arr(<<"SDXL">>), tags |-> Arr(<<1, 1>>)]}

\* Storage.setItem / removeItem
SetItem(store, key, text) == MapSet(store, key, text)
RemoveItem(store, key) == [x \in DOMAIN store \ {key} |-> store[x]]

\* `${this.currentPage}_filters` of FilterManager, 'recipeFilters' of
\* RecipeFilterManager
storageKey(f) ==
    IF f.context.cls = "RecipeFilterManager" THEN "recipeFilters"
    ELSE CASE f.context.currentPage = "loras" -> "loras_filters"
           [] f.context.currentPage = "recipes" -> "recipes_filters"
           [] f.context.currentPage = "checkpoints" -> "checkpoints_filters"

\* the manager classes, their pages and whether the page's manager object
\* (window.recipeManager, window.checkpointManager) exists; loadMoreLoras is
\* an import
Contexts ==
    {[cls |-> "FilterManager", currentPage |-> "loras", collaborator |-> TRUE]}
    \cup {[cls |-> c, currentPage |-> "recipes", collaborator |-> b] :
              c \in {"FilterManager", "RecipeFilterManager"}, b \in BOOLEAN}
    \cup {[cls |-> "FilterManager", currentPage |-> "checkpoints", collaborator |-> b] :
              b \in BOOLEAN}

\* pageState.filters when the page loads
InitialPageFilters == {Undefined, EmptyFilters}

hasActiveFilters(f) ==
    Length(f.filters.baseModel) > 0 \/ Length(f.filters.tags) > 0

updateTagSelections(f) ==
    [f EXCEPT !.baseEls = [m \in DOMAIN f.baseEls |-> Includes(f.filters.baseModel, m)],
              !.tagEls = [g \in DOMAIN f.tagEls |-> Includes(f.filters.tags, g)]]

updateActiveFiltersCount(f) ==
    LET totalActiveFilters == Length(f.filters.baseModel) + Length(f.filters.tags)
    IN  IF totalActiveFilters > 0
        THEN [f EXCEPT !.count = [shown |-> TRUE, text |-> totalActiveFilters]]
        ELSE [f EXCEPT !.count = [shown |-> FALSE, text |-> 0]]

\* the page's reload exists where FilterManager looks for it
callsReload(f) ==
    \/ f.context.currentPage = "recipes" /\ f.context.collaborator
    \/ f.context.currentPage = "loras"
    \/ f.context.currentPage = "checkpoints" /\ f.context.collaborator

\* The reload is called and the method waits for it to settle.  Nothing
\* serializes the calls, so any number of them can be pending: f.reloads is
\* the set of the kinds of call of which at least one is pending.
callReload(f, op, notify) ==
    [f EXCEPT !.reloads = @ \cup {[op |-> op, notify |-> notify]},
              !.reloadCalls = @ + 1]

\* applyFilters from "Update filter button to show active state" on
applyFiltersDone(f, notify) ==
    IF hasActiveFilters(f)
    THEN [f EXCEPT !.buttonActive = TRUE,
                   !.toasts = IF notify
                              THEN Append(@, Toast("Filtering by",
                                                   Length(f.filters.baseModel)
                                                       + Length(f.filters.tags),
                                                   "success"))
                              ELSE @]
    ELSE [f EXCEPT !.buttonActive = FALSE,
                   !.toasts = IF notify
                              THEN Append(@, Toast("Filters cleared", 0, "info"))
                              ELSE @]

NoHref == [path |-> "none", base_models |-> <<>>, tags |-> <<>>]

\* RecipeFilterManager._applyFiltersByPageReload: the query string carries
\* the fields that are not empty, joined by ','
applyFiltersByPageReload(f) ==
    IF \/ Length(f.filters.baseModel) > 0 /\ ~HasArrayMethods(f.filters.baseModel)
       \/ Length(f.filters.tags) > 0 /\ ~HasArrayMethods(f.filters.tags)
    THEN Throw(f)
    ELSE [f EXCEPT !.href = [path |-> "/loras/recipes",
                             base_models |-> f.filters.baseModel.v,
                             tags |-> f.filters.tags.v]]

\* applyFilters that starts no reload while one is pending
FilterManager_applyFilters_Serialized(f, notify) ==
    LET f1 == [f EXCEPT !.storage = SetItem(@, storageKey(f), JSONStringify(f.filters)),
                        !.pageFilters = f.filters]
    IN  IF callsReload(f1) /\ f1.reloads = {} THEN callReload(f1, "applyFilters", notify)
        ELSE applyFiltersDone(f1, notify)

FilterManager_applyFilters(f, notify) ==
    LET f1 == [f EXCEPT !.storage = SetItem(@, storageKey(f), JSONStringify(f.filters)),
                        !.pageFilters = f.filters]
    IN  IF callsReload(f1) THEN callReload(f1, "applyFilters", notify)
        ELSE applyFiltersDone(f1, notify)

RecipeFilterManager_applyFilters(f, notify) ==
    LET f1 == [f EXCEPT !.storage = SetItem(@, storageKey(f), JSONStringify(f.filters))]
        f2 == applyFiltersByPageReload(f1)
    IN  IF f1.context.collaborator THEN callReload(f1, "applyFilters", notify)
        ELSE IF f2.threw THEN f2
        ELSE applyFiltersDone(f2, notify)

applyFilters(f, notify) ==
    IF f.context.cls = "RecipeFilterManager"
    THEN RecipeFilterManager_applyFilters(f, notify)
    ELSE FilterManager_applyFilters(f, notify)

\* clearFilters that leaves the stored criteria in localStorage
FilterManager_clearFilters_KeepStorage(f) ==
    LET f1 == [f EXCEPT !.filters = EmptyFilters, !.pageFilters = EmptyFilters]
        f2 == updateActiveFiltersCount(updateTagSelections(f1))
        f3 == [f2 EXCEPT !.buttonActive = FALSE]
    IN  IF callsReload(f3) THEN callReload(f3, "clearFilters", TRUE)
        ELSE [f3 EXCEPT !.toasts = Append(@, Toast("Filters cleared", 0, "info"))]

FilterManager_clearFilters(f) ==
    LET f1 == [f EXCEPT !.filters = EmptyFilters, !.pageFilters = EmptyFilters]
        f2 == updateActiveFiltersCount(updateTagSelections(f1))
        f3 == [f2 EXCEPT !.storage = RemoveItem(@, storageKey(f)),
                         !.buttonActive = FALSE]
    IN  IF callsReload(f3) THEN callReload(f3, "clearFilters", TRUE)
        ELSE [f3 EXCEPT !.toasts = Append(@, Toast("Filters cleared", 0, "info"))]

RecipeFilterManager_clearFilters(f) ==
    LET f1 == [f EXCEPT !.filters = EmptyFilters]
        f2 == updateActiveFiltersCount(updateTagSelections(f1))
        f3 == [f2 EXCEPT !.storage = RemoveItem(@, storageKey(f)),
                         !.buttonActive = FALSE]
    IN  IF f3.context.collaborator THEN callReload(f3, "clearFilters", TRUE)
        ELSE [f3 EXCEPT !.href = [path |-> "/loras/recipes", base_models |-> <<>>,
                                  tags |-> <<>>],
                        !.toasts = Append(@, Toast("Recipe filters cleared", 0, "info"))]

clearFilters(f) ==
    IF f.context.cls = "RecipeFilterManager"
    THEN RecipeFilterManager_clearFilters(f)
    ELSE FilterManager_clearFilters(f)

\* loadFiltersFromStorage that parses outside a try
loadFiltersFromStorage_NoTry(f) ==
    IF storageKey(f) \notin DOMAIN f.storage THEN f
    ELSE LET parsedFilters == f.storage[storageKey(f)]
             loaded == [baseModel |-> OrEmptyArray(parsedFilters.baseModel),
                        tags |-> OrEmptyArray(parsedFilters.tags)]
             f1 == [f EXCEPT !.filters = loaded,
                             !.pageFilters = IF f.context.cls = "FilterManager"
                                             THEN loaded ELSE @]
             f2 == updateActiveFiltersCount(updateTagSelections(f1))
         IN  IF parsedFilters.kind # "object" THEN Throw(f)
             ELSE IF hasActiveFilters(f2) THEN [f2 EXCEPT !.buttonActive = TRUE]
             ELSE f2

\* JSON.parse of a text that is not a document, and the property read on
\* null, throw inside the try: the catch logs and this.filters stays
loadFiltersFromStorage(f) ==
    IF storageKey(f) \notin DOMAIN f.storage THEN f
    ELSE LET parsedFilters == f.storage[storageKey(f)]
             loaded == [baseModel |-> OrEmptyArray(parsedFilters.baseModel),
                        tags |-> OrEmptyArray(parsedFilters.tags)]
             f1 == [f EXCEPT !.filters = loaded,
                             !.pageFilters = IF f.context.cls = "FilterManager"
                                             THEN loaded ELSE @]
             f2 == updateActiveFiltersCount(updateTagSelections(f1))
         IN  IF parsedFilters.kind # "object" THEN f
             ELSE IF hasActiveFilters(f2) THEN [f2 EXCEPT !.buttonActive = TRUE]
             ELSE f2

\* createBaseModelTags starts a fetch unless the page has no endpoint
fetchesBaseModels(ctx) ==
    ctx.cls = "RecipeFilterManager" \/ ctx.currentPage \in {"loras", "recipes"}

\* new FilterManager() / new RecipeFilterManager() on a page as its template
\* and localStorage give it
construct(ctx, store, pf) ==
    loadFiltersFromStorage(
        [context |-> ctx,
         filters |-> IF ctx.cls = "FilterManager" /\ pf # Undefined
                     THEN pf ELSE EmptyFilters,
         tagsLoaded |-> FALSE,
         storage |-> store,
         pageFilters |-> pf,
         panelHidden |-> TRUE,
         buttonActive |-> FALSE,
         count |-> [shown |-> FALSE, text |-> 0],
         tagsContainer |-> "template",
         tagEls |-> <<>>,
         baseContainer |-> "template",
         baseEls |-> <<>>,
         fetching |-> [topTags |-> FALSE, baseModels |-> fetchesBaseModels(ctx)],
         reloads |-> {},
         href |-> NoHref,
         started |-> 0,
         toasts |-> <<>>,
         threw |-> FALSE,
         reloadCalls |-> 0])

closeFilterPanel(f) == [f EXCEPT !.panelHidden = TRUE, !.buttonActive = FALSE]

\* loadTopTags up to its await of fetch
loadTopTags(f) ==
    [f EXCEPT !.tagsContainer = "loading", !.tagEls = <<>>,
              !.fetching.topTags = TRUE, !.started = @ + 1]

\* toggleFilterPanel that asks for the tags at every opening
toggleFilterPanel_NoFlag(f) ==
    IF f.panelHidden
    THEN [loadTopTags([f EXCEPT !.panelHidden = FALSE, !.buttonActive = TRUE])
             EXCEPT !.tagsLoaded = TRUE]
    ELSE closeFilterPanel(f)

toggleFilterPanel(f) ==
    IF f.panelHidden
    THEN LET f1 == [f EXCEPT !.panelHidden = FALSE, !.buttonActive = TRUE]
         IN  IF ~f1.tagsLoaded THEN [loadTopTags(f1) EXCEPT !.tagsLoaded = TRUE]
             ELSE f1
    ELSE closeFilterPanel(f)

\* a document listener that leaves out the filter button
documentClick_NoButtonCheck(f, target) ==
    IF target # "panel" /\ ~f.panelHidden THEN closeFilterPanel(f) ELSE f

\* the click listener on document; target is where the click landed
documentClick(f, target) ==
    IF target = "outside" /\ ~f.panelHidden THEN closeFilterPanel(f) ELSE f

createTagFilterElements(f, tags) ==
    IF tags = {} THEN [f EXCEPT !.tagsContainer = "no-tags", !.tagEls = <<>>]
    ELSE [f EXCEPT !.tagsContainer = "tags", !.tagEls = [g \in tags |-> FALSE]]

\* loadTopTags without its catch
loadTopTagsSettled_NoCatch(f, outcome, tags) ==
    LET f1 == [f EXCEPT !.fetching.topTags = FALSE]
    IN  IF outcome = "ok"
        THEN updateTagSelections(createTagFilterElements(f1, tags))
        ELSE Throw(f1)

\* loadTopTags after its fetch settled
loadTopTagsSettled(f, outcome, tags) ==
    LET f1 == [f EXCEPT !.fetching.topTags = FALSE]
    IN  IF outcome = "ok"
        THEN updateTagSelections(createTagFilterElements(f1, tags))
        ELSE [f1 EXCEPT !.tagsContainer = "error", !.tagEls = <<>>]

\* the then / catch of the fetch of createBaseModelTags
baseModelsSettled(f, outcome) ==
    LET f1 == [f EXCEPT !.fetching.baseModels = FALSE]
    IN  CASE outcome = "ok" ->
                 updateTagSelections(
                     [f1 EXCEPT !.baseContainer = "tags",
                                !.baseEls = [m \in BaseModelNames |-> FALSE]])
          [] outcome = "noSuccess" -> f1
          [] OTHER -> [f1 EXCEPT !.baseContainer = "error", !.baseEls = <<>>]

\* the click listener of a .tag-filter element
tagElClick(f, tagName) ==
    LET f1 == [f EXCEPT !.tagEls[tagName] = ~@]
        f2 == IF f1.tagEls[tagName]
              THEN IF Includes(f1.filters.tags, tagName) THEN f1
                   ELSE IF HasArrayMethods(f1.filters.tags)
                   THEN [f1 EXCEPT !.filters.tags = Push(@, tagName)]
                   ELSE Throw(f1)
              ELSE IF HasArrayMethods(f1.filters.tags)
              THEN [f1 EXCEPT !.filters.tags = Without(@, tagName)]
              ELSE Throw(f1)
    IN  IF f2.threw THEN f2
        ELSE applyFilters(updateActiveFiltersCount(f2), FALSE)

\* the click listener of a .base-model-tag element
baseModelTagClick(f, name) ==
    LET f1 == [f EXCEPT !.baseEls[name] = ~@]
        f2 == IF f1.baseEls[name]
              THEN IF Includes(f1.filters.baseModel, name) THEN f1
                   ELSE IF HasArrayMethods(f1.filters.baseModel)
                   THEN [f1 EXCEPT !.filters.baseModel = Push(@, name)]
                   ELSE Throw(f1)
              ELSE IF HasArrayMethods(f1.filters.baseModel)
              THEN [f1 EXCEPT !.filters.baseModel = Without(@, name)]
              ELSE Throw(f1)
    IN  IF f2.threw THEN f2
        ELSE applyFilters(updateActiveFiltersCount(f2), FALSE)

\* a settled reload: the method that awaited it goes on
reloadResolved(f, call) ==
    IF call.op = "applyFilters" THEN applyFiltersDone(f, call.notify)
    ELSE [f EXCEPT !.toasts =
              Append(@, Toast(IF f.context.cls = "RecipeFilterManager"
                              THEN "Recipe filters cleared" ELSE "Filters cleared",
                              0, "info"))]

\* only RecipeFilterManager.applyFilters awaits the reload inside a try
reloadRejected(f, call) ==
    IF call.op = "applyFilters" /\ f.context.cls = "RecipeFilterManager"
    THEN LET f1 == applyFiltersByPageReload(f)
         IN  IF f1.threw THEN f1 ELSE applyFiltersDone(f1, call.notify)
    ELSE Throw(f)

\* the state of a page whose filter manager nothing has touched
FilterStart(ctx, store, pf) ==
    LET f == construct(ctx, store, pf)
    IN  /\ context = f.context
        /\ filters = f.filters
        /\ tagsLoaded = f.tagsLoaded
        /\ localStorage = f.storage
        /\ pageFilters = f.pageFilters
        /\ filterPanelHidden = f.panelHidden
        /\ filterButtonActive = f.buttonActive
        /\ activeFiltersCount = f.count
        /\ tagsContainer = f.tagsContainer
        /\ tagEls = f.tagEls
        /\ baseModelTags = f.baseContainer
        /\ baseEls = f.baseEls
        /\ fetching = f.fetching
        /\ reloads = f.reloads
        /\ href = f.href
        /\ topTagsStarted = f.started
        /\ filterOp = [name |-> "construct", kind |-> "none", tag |-> 0,
                       threw |-> f.threw,
                       reloadCalls |-> f.reloadCalls, toasts |-> f.toasts]

LorasContext == [cls |-> "FilterManager", currentPage |-> "loras", collaborator |-> TRUE]

\* the LoRA page with no filters stored
FilterIdle == FilterStart(LorasContext, <<>>, EmptyFilters)

\* the listing as the page load fetched it, no reload pending
ReloadIdle ==
    /\ requests = <<>>
    /\ listing = EmptyFilters

\* a loader node created with an empty text and nothing saved
LoaderIdle ==
    /\ isUpdating = FALSE
    /\ inputValue = <<>>
    /\ lorasValue = Arr(<<>>)
    /\ loaderOp = [name |-> "nodeCreated", threw |-> FALSE, bodies |-> 0,
                   nested |-> FALSE, notified |-> FALSE]

\* the import modal open on its last step, saveRecipe() not called
ImportStart(name, n, root) ==
    /\ savePc = "idle"
    /\ recipeName = name
    /\ missingCount = n
    /\ loraRoot = root
    /\ downloadIndex = 0
    /\ completedDownloads = 0
    /\ downloads = <<>>
    /\ outcomes = <<>>
    /\ ws = "none"
    /\ importModalOpen = TRUE
    /\ loading = [shown |-> "hidden", progress |-> 0]
    /\ importToasts = <<>>

\* a recipe that misses no LoRA
ImportIdle == ImportStart(TRUE, 0, TRUE)

\* the page with no selection, outside selection mode
BulkIdle ==
    /\ bulkMode = FALSE
    /\ selectedLoras = {}
    /\ loraMetadataCache = <<>>
    /\ cards = <<>>
    /\ btnActive = FALSE
    /\ panelHidden = TRUE
    /\ panelVisible = FALSE
    /\ bodyBulk = FALSE
    /\ isStripVisible = FALSE
    /\ strip = NoStrip
    /\ timers = <<>>
    /\ removePending = FALSE
    /\ countText = InitialCount
    /\ toasts = <<>>
    /\ clipboard = <<>>
    /\ copyPending = 0
    /\ lastOp = "load"
    /\ repeated = FALSE
    /\ threw = FALSE
    /\ expect = {}

\* ---- LoRA loader node (web/comfyui/lora_loader.js) ----
\* The text of the input widget is the sequence of the <lora:name:strength>
\* tags the pattern matches in it, a tag being the name it carries; what
\* stands between the tags takes no part in either callback.  The value of
\* the loras widget is an array of entries, or what graph data or a caller
\* may put there: null, or an object that is no array.  A callback is the
\* record s of the closure and the widget values it leaves; s.running counts
\* the callback bodies executing, s.bodies those that ran in the event and
\* s.nested tells that one started while another was executing.
MaxTokens == 2

LoraNames == {"a", "b"}

\* the strength the text gives a tag, and the strengths the widget offers
TextStrength == "1"
WidgetStrengths == {"1", "0.5"}

NotArray == [t |-> "object", v |-> <<>>]

RECURSIVE mergeFrom(_, _, _, _)
\* the while loop of mergeLoras from tag i on
mergeFrom(lorasText, lorasJson, i, result) ==
    IF i > Len(lorasText) THEN result
    ELSE LET name == lorasText[i]
             found == {j \in DOMAIN lorasJson : lorasJson[j].name = name}
             existingLora == lorasJson[CHOOSE j \in found : \A k \in found : j <= k]
         IN  mergeFrom(lorasText, lorasJson, i + 1,
                       Append(result,
                              IF found # {}
                              THEN [name |-> name, strength |-> existingLora.strength,
                                    active |-> existingLora.active]
                              ELSE [name |-> name, strength |-> TextStrength,
                                    active |-> TRUE]))

\* mergeLoras: lorasJson.find throws at the first tag when lorasJson is
\* no array
mergeLoras(lorasText, lorasJson) ==
    IF Len(lorasText) > 0 /\ ~IsArray(lorasJson)
    THEN [threw |-> TRUE, v |-> <<>>]
    ELSE [threw |-> FALSE, v |-> mergeFrom(lorasText, lorasJson.v, 1, <<>>)]

LCur ==
    [isUpdating |-> isUpdating, inputValue |-> inputValue, lorasValue |-> lorasValue,
     running |-> 0, bodies |-> 0, nested |-> FALSE, notified |-> FALSE,
     threw |-> FALSE]

\* a callback body starts
Enter(s) ==
    [s EXCEPT !.isUpdating = TRUE, !.nested = @ \/ s.running > 0,
              !.running = @ + 1, !.bodies = @ + 1]

\* the finally of a callback
Finally(s) == [s EXCEPT !.isUpdating = FALSE, !.running = @ - 1]

RECURSIVE lorasCallback(_, _, _), inputCallback(_, _, _)

\* The callback given to addLorasWidget.  notifies: assigning a widget's
\* value calls that widget's callback before the assignment returns, which
\* is for the widget code to decide.
lorasCallback(s, value, notifies) ==
    IF s.isUpdating THEN s
    ELSE LET s1 == Enter(s)
             currentLoras == {value.v[j].name : j \in DOMAIN value.v}
             newText == SelectSeq(s1.inputValue, LAMBDA name : name \in currentLoras)
             s2 == [s1 EXCEPT !.inputValue = newText]
             s3 == IF notifies
                   THEN inputCallback([s2 EXCEPT !.notified = TRUE], newText, notifies)
                   ELSE s2
         IN  IF ~IsArray(value) THEN Finally(Throw(s1))
             ELSE Finally(s3)

\* an input callback whose reset of the flag is not in a finally
inputCallback_NoFinally(s, value, notifies) ==
    IF s.isUpdating THEN s
    ELSE LET s1 == Enter(s)
             currentLoras == IF s1.lorasValue.t = "null" THEN Arr(<<>>) ELSE s1.lorasValue
             mergedLoras == mergeLoras(value, currentLoras)
             s2 == [s1 EXCEPT !.lorasValue = Arr(mergedLoras.v)]
             s3 == IF notifies
                   THEN lorasCallback([s2 EXCEPT !.notified = TRUE], s2.lorasValue, notifies)
                   ELSE s2
         IN  IF mergedLoras.threw THEN [Throw(s1) EXCEPT !.running = @ - 1]
             ELSE Finally(s3)

\* inputWidget.callback
inputCallback(s, value, notifies) ==
    IF s.isUpdating THEN s
    ELSE LET s1 == Enter(s)
             currentLoras == IF s1.lorasValue.t = "null" THEN Arr(<<>>) ELSE s1.lorasValue
             mergedLoras == mergeLoras(value, currentLoras)
             s2 == [s1 EXCEPT !.lorasValue = Arr(mergedLoras.v)]
             s3 == IF notifies
                   THEN lorasCallback([s2 EXCEPT !.notified = TRUE], s2.lorasValue, notifies)
                   ELSE s2
         IN  IF mergedLoras.threw THEN Finally(Throw(s1))
             ELSE Finally(s3)

\* the texts a user can leave in the input widget
Texts == UNION {[1..n -> LoraNames] : n \in 0..MaxTokens}

\* the values one action on the loras widget makes of the array v: an entry
\* deleted, switched on or off, or given another strength
WidgetEdits(v) ==
    {Arr(RemoveAt(v, i)) : i \in DOMAIN v}
    \cup {Arr([v EXCEPT ![i].active = ~@]) : i \in DOMAIN v}
    \cup {Arr([v EXCEPT ![i].strength = w]) : i \in DOMAIN v, w \in WidgetStrengths}

\* the node after an event whose callback left s
LCommit(s, name) ==
    /\ isUpdating' = s.isUpdating
    /\ inputValue' = s.inputValue
    /\ lorasValue' = s.lorasValue
    /\ loaderOp' = [name |-> name, threw |-> s.threw, bodies |-> s.bodies,
                    nested |-> s.nested, notified |-> s.notified]
    /\ UNCHANGED <<bulkVars, filterVars, reloadVars, importVars>>

\* the user edits the text: the widget takes it and calls its callback
TextInput(text, notifies) ==
    /\ text \in Texts
    /\ LCommit(inputCallback([LCur EXCEPT !.inputValue = text], text, notifies),
               "inputCallback")

\* the user acts on the loras widget: it takes the value and calls its
\* callback
LorasInput(value, notifies) ==
    /\ \/ IsArray(lorasValue) /\ value \in WidgetEdits(lorasValue.v)
       \/ value \in {Null, NotArray}
    /\ LCommit(lorasCallback([LCur EXCEPT !.lorasValue = value], value, notifies),
               "lorasCallback")

LorasValues ==
    {Null, NotArray}
    \cup {Arr(v) : v \in UNION {[1..n -> [name : LoraNames, strength : WidgetStrengths,
                                             active : BOOLEAN]] : n \in 0..MaxTokens}}

InitLoader ==
    /\ BulkIdle
    /\ FilterIdle
    /\ ReloadIdle
    /\ LoaderIdle
    /\ ImportIdle

NextLoader ==
    \/ \E text \in Texts, notifies \in BOOLEAN : TextInput(text, notifies)
    \/ \E value \in LorasValues, notifies \in BOOLEAN : LorasInput(value, notifies)

SpecLoader == InitLoader /\ [][NextLoader]_vars

\* ---- ImportManager.saveRecipe ----
\* saveRecipe() is the record m of what it has done so far; m.pc is the
\* await it is suspended at.  The missing LoRAs are 1..m.n in list order.
MaxMissing == 3

\* data.progress of the messages the progress socket delivers
ProgressValues == {0, 50, 100}

ICur ==
    [pc |-> savePc, recipeName |-> recipeName, n |-> missingCount,
     loraRoot |-> loraRoot, i |-> downloadIndex,
     completedDownloads |-> completedDownloads, downloads |-> downloads,
     outcomes |-> outcomes, ws |-> ws, modalOpen |-> importModalOpen,
     loading |-> loading, toasts |-> importToasts]

IToast(m, message, type) == [m EXCEPT !.toasts = Append(@, Toast(message, 0, type))]

\* the finally of saveRecipe
saveFinally(m) ==
    [m EXCEPT !.pc = "done", !.loading = [shown |-> "hidden", progress |-> 0]]

\* the catch of saveRecipe, then its finally
saveCatch(m) == saveFinally(IToast(m, "error.message", "error"))

\* "Close modal and reload recipes": refreshRecipes() or resetAndReload()
\* may throw into the catch
closeAndRefresh(m, refreshThrows) ==
    LET m1 == [m EXCEPT !.modalOpen = FALSE]
    IN  IF refreshThrows THEN saveCatch(m1) ELSE saveFinally(m1)

\* the loop body up to its await of fetch, for the LoRA of m.i
requestDownload(m) ==
    [m EXCEPT !.pc = "download", !.downloads = Append(@, m.i)]

\* after the loop: "Close WebSocket" and the completion message
downloadsDone(m, refreshThrows) ==
    LET m1 == [m EXCEPT !.ws = "closed"]
        m2 == IF m1.completedDownloads = m1.n
              THEN IToast(m1, "All LoRAs downloaded successfully", "success")
              ELSE IToast(m1, "Downloaded some of the LoRAs", "warning")
    IN  closeAndRefresh(m2, refreshThrows)

\* i++ and the loop condition
nextDownload(m, refreshThrows) ==
    LET m1 == [m EXCEPT !.i = @ + 1]
    IN  IF m1.i <= m1.n THEN requestDownload(m1) ELSE downloadsDone(m1, refreshThrows)

\* a download loop without its inner catch: a rejected fetch ends the loop
downloadSettled_NoCatch(m, outcome, refreshThrows) ==
    LET m1 == [m EXCEPT !.outcomes = Append(@, outcome)]
    IN  CASE outcome = "ok" ->
                 nextDownload([m1 EXCEPT !.completedDownloads = @ + 1], refreshThrows)
          [] outcome = "notOk" -> [m1 EXCEPT !.pc = "text"]
          [] OTHER -> saveCatch(m1)

\* the fetch of a download settles: resolved OK, resolved not OK (the body
\* is awaited next), or rejected (caught inside the loop)
downloadSettled(m, outcome, refreshThrows) ==
    LET m1 == [m EXCEPT !.outcomes = Append(@, outcome)]
    IN  CASE outcome = "ok" ->
                 nextDownload([m1 EXCEPT !.completedDownloads = @ + 1], refreshThrows)
          [] outcome = "notOk" -> [m1 EXCEPT !.pc = "text"]
          [] OTHER -> nextDownload(m1, refreshThrows)

\* saveRecipe after result.success, from "Check if we need to download LoRAs"
saveSucceeded(m, refreshThrows) ==
    LET m1 == IToast(m, "Recipe saved successfully", "success")
        m2 == [m1 EXCEPT !.ws = "open", !.loading = [shown |-> "progress", progress |-> 0],
                         !.completedDownloads = 0, !.i = 1]
    IN  IF m1.n > 0
        THEN IF ~m1.loraRoot THEN saveCatch(m1) ELSE requestDownload(m2)
        ELSE closeAndRefresh(m1, refreshThrows)

\* the page after a step of saveRecipe left it in m
ICommit(m) ==
    /\ savePc' = m.pc
    /\ recipeName' = m.recipeName
    /\ missingCount' = m.n
    /\ loraRoot' = m.loraRoot
    /\ downloadIndex' = m.i
    /\ completedDownloads' = m.completedDownloads
    /\ downloads' = m.downloads
    /\ outcomes' = m.outcomes
    /\ ws' = m.ws
    /\ importModalOpen' = m.modalOpen
    /\ loading' = m.loading
    /\ importToasts' = m.toasts
    /\ UNCHANGED <<bulkVars, filterVars, reloadVars, loaderVars>>

\* saveRecipe() is called
SaveRecipe ==
    /\ savePc = "idle"
    /\ ICommit(IF ~recipeName
               THEN [IToast(ICur, "Please enter a recipe name", "error") EXCEPT !.pc = "done"]
               ELSE [ICur EXCEPT !.pc = "save",
                                 !.loading = [shown |-> "simple", progress |-> 0]])

\* fetch('/api/recipes/save') settles
SaveResponse(outcome) ==
    /\ savePc = "save"
    /\ ICommit(IF outcome = "rejected" THEN saveCatch(ICur)
               ELSE [ICur EXCEPT !.pc = "json"])

\* response.json() settles: rejected, success false, or success
SaveResult(outcome, refreshThrows) ==
    /\ savePc = "json"
    /\ ICommit(CASE outcome = "rejected" -> saveCatch(ICur)
                 [] outcome = "failure" -> saveFinally(IToast(ICur, "result.error", "error"))
                 [] OTHER -> saveSucceeded(ICur, refreshThrows))

\* fetch('/api/download-lora') settles
DownloadResponse(outcome, refreshThrows) ==
    /\ savePc = "download"
    /\ ICommit(downloadSettled(ICur, outcome, refreshThrows))

\* response.text() of a download that was not OK settles; a rejection is
\* caught inside the loop
ErrorText(outcome, refreshThrows) ==
    /\ savePc = "text"
    /\ outcome \in {"resolved", "rejected"}
    /\ ICommit(nextDownload(ICur, refreshThrows))

\* ws.onmessage with a progress message for the current download
ProgressMessage(progress) ==
    /\ ws = "open"
    /\ ICommit([ICur EXCEPT !.loading.progress =
                    (100 * completedDownloads + progress) \div missingCount])

InitImport ==
    /\ BulkIdle
    /\ FilterIdle
    /\ ReloadIdle
    /\ LoaderIdle
    /\ \E name \in BOOLEAN, n \in 0..MaxMissing, root \in BOOLEAN :
           ImportStart(name, n, root)

NextImport ==
    \/ SaveRecipe
    \/ \E outcome \in {"rejected", "response"} : SaveResponse(outcome)
    \/ \E outcome \in {"rejected", "failure", "success"}, refreshThrows \in BOOLEAN :
           SaveResult(outcome, refreshThrows)
    \/ \E outcome \in {"ok", "notOk", "rejected"}, refreshThrows \in BOOLEAN :
           DownloadResponse(outcome, refreshThrows)
    \/ \E outcome \in {"resolved", "rejected"}, refreshThrows \in BOOLEAN :
           ErrorText(outcome, refreshThrows)
    \/ \E progress \in ProgressValues : ProgressMessage(progress)

SpecImport == InitImport /\ [][NextImport]_vars

\* ---- page ----
Init ==
    /\ bulkMode = FALSE
    /\ selectedLoras = {}
    /\ loraMetadataCache = <<>>
    /\ \E tips \in Renderings :
           cards = [k \in DOMAIN tips |-> [usage_tips |-> tips[k], selected |-> FALSE]]
    /\ btnActive = FALSE
    /\ panelHidden = TRUE
    /\ panelVisible = FALSE
    /\ bodyBulk = FALSE
    /\ isStripVisible = FALSE
    /\ strip = NoStrip
    /\ timers = <<>>
    /\ removePending = FALSE
    /\ countText = InitialCount
    /\ toasts = <<>>
    /\ clipboard = <<>>
    /\ copyPending = 0
    /\ lastOp = "load"
    /\ repeated = FALSE
    /\ threw = FALSE
    /\ expect = {}
    /\ FilterIdle
    /\ ReloadIdle
    /\ LoaderIdle
    /\ ImportIdle

\* the handlers whose consecutive calls are told apart from a first call
RunOps == {"toggleCardSelection", "applySelectionState"}

\* the page after a handler left it in r
Commit(r, op) ==
    /\ Len(r.timers) <= MaxTimers
    /\ bulkMode' = r.bulkMode
    /\ selectedLoras' = r.sel
    /\ loraMetadataCache' = r.cache
    /\ cards' = r.cards
    /\ btnActive' = r.btnActive
    /\ panelHidden' = r.panelHidden
    /\ panelVisible' = r.panelVisible
    /\ bodyBulk' = r.bodyBulk
    /\ isStripVisible' = r.isStripVisible
    /\ strip' = r.strip
    /\ timers' = r.timers
    /\ removePending' = r.removePending
    /\ toasts' = <<>>
    /\ clipboard' = <<>>
    /\ countText' = r.countText
    /\ lastOp' = op
    /\ repeated' = (lastOp = op /\ op \in RunOps)
    /\ threw' = r.threw
    /\ UNCHANGED nonBulkVars

\* a click on a rendered card
CardClick(k) ==
    /\ k \in DOMAIN cards
    /\ IF bulkMode
       THEN /\ Commit(toggleCardSelection(Cur, k, 1), "toggleCardSelection")
            /\ expect' = (expect \ {k}) \cup ({k} \ expect)
       ELSE /\ Commit(Cur, "showLoraModal")
            /\ expect' = selectedLoras
    /\ UNCHANGED copyPending

ToggleBulkMode ==
    /\ Commit(toggleBulkMode(Cur, 1), "toggleBulkMode")
    /\ expect' = selectedLoras'
    /\ UNCHANGED copyPending

ClearSelection ==
    /\ Commit(clearSelection(Cur, 1), "clearSelection")
    /\ expect' = selectedLoras'
    /\ UNCHANGED copyPending

\* a click on #selectedCount
ToggleThumbnailStrip ==
    /\ Commit(toggleThumbnailStrip(Cur, 1), "toggleThumbnailStrip")
    /\ expect' = selectedLoras'
    /\ UNCHANGED copyPending

\* a click on a thumbnail of the strip, or on its remove button
DeselectItem(k) ==
    /\ k \in strip.thumbs
    /\ Commit(deselectItem(Cur, k, 1), "deselectItem")
    /\ expect' = selectedLoras'
    /\ UNCHANGED copyPending

ApplySelectionState ==
    /\ Commit(applySelectionState(Cur, 1), "applySelectionState")
    /\ expect' = selectedLoras'
    /\ UNCHANGED copyPending

\* a reload of the listing: every card is created anew, then the selection
\* state is applied
Rerender(tips) ==
    /\ LET s1 == [Cur EXCEPT !.cards = [k \in DOMAIN tips |-> createLoraCard(Cur, k, tips[k])]]
       IN  Commit(applySelectionState(s1, 1), "rerender")
    /\ expect' = selectedLoras'
    /\ UNCHANGED copyPending

\* copyAllLorasSyntax reads the selection and the cache and writes neither:
\* its steps are the steps of SpecCopy, which starts from every selection
\* and cache.
CopyAllLorasSyntax ==
    /\ copyPending = 0
    /\ \E order \in Orders(selectedLoras) :
         LET r == copyAllLorasSyntax(order, loraMetadataCache)
         IN  /\ toasts' = r.toasts
             /\ clipboard' = r.clipboard
             /\ copyPending' = r.pending
             /\ threw' = r.threw
    /\ lastOp' = "copyAllLorasSyntax"
    /\ repeated' = (lastOp = "copyAllLorasSyntax")
    /\ expect' = selectedLoras
    /\ UNCHANGED <<pageVars, nonBulkVars>>

\* navigator.clipboard.writeText resolves
ClipboardResolve ==
    /\ copyPending > 0
    /\ toasts' = Append(toasts, Toast("Copied LoRA syntaxes to clipboard", copyPending, "success"))
    /\ copyPending' = 0
    /\ lastOp' = "writeText"
    /\ repeated' = FALSE
    /\ UNCHANGED <<pageVars, clipboard, threw, expect, nonBulkVars>>

\* copyAllLorasSyntax awaiting writeText outside a try: the rejection is its own
ClipboardReject_NoCatch ==
    /\ copyPending > 0
    /\ copyPending' = 0
    /\ lastOp' = "writeTextRejected"
    /\ repeated' = FALSE
    /\ threw' = TRUE
    /\ UNCHANGED <<pageVars, toasts, clipboard, expect, nonBulkVars>>

\* navigator.clipboard.writeText rejects
ClipboardReject ==
    /\ copyPending > 0
    /\ toasts' = Append(toasts, Toast("Copy failed", 0, "error"))
    /\ copyPending' = 0
    /\ lastOp' = "writeTextRejected"
    /\ repeated' = FALSE
    /\ UNCHANGED <<pageVars, clipboard, threw, expect, nonBulkVars>>

\* a callback of toggleBulkMode runs
FireTimer(i) ==
    /\ i \in DOMAIN timers
    /\ CanFire(i)
    /\ timers' = RemoveAt(timers, i)
    /\ panelVisible' = (panelVisible \/ timers[i] = "panelVisible")
    /\ panelHidden' = (panelHidden \/ timers[i] = "panelHidden")
    /\ lastOp' = "timer"
    /\ repeated' = FALSE
    /\ threw' = FALSE
    /\ UNCHANGED <<bulkMode, selectedLoras, loraMetadataCache, cards, btnActive,
                   bodyBulk, isStripVisible, strip, removePending,
                   countText, toasts, clipboard, copyPending, expect, nonBulkVars>>

\* the callback of hideThumbnailStrip runs, 300 ms after the call
StripRemove ==
    /\ removePending
    /\ removePending' = FALSE
    /\ strip' = NoStrip
    /\ lastOp' = "timer"
    /\ repeated' = FALSE
    /\ threw' = FALSE
    /\ UNCHANGED <<bulkMode, selectedLoras, loraMetadataCache, cards, btnActive,
                   panelHidden, panelVisible, bodyBulk, isStripVisible, timers,
                   countText, toasts, clipboard, copyPending, expect, nonBulkVars>>

Next ==
    \/ \E k \in Keys : CardClick(k)
    \/ ToggleBulkMode
    \/ ClearSelection
    \/ ToggleThumbnailStrip
    \/ \E k \in Keys : DeselectItem(k)
    \/ ApplySelectionState
    \/ \E tips \in Renderings : Rerender(tips)
    \/ \E i \in 1..MaxTimers : FireTimer(i)
    \/ StripRemove

Spec == Init /\ [][Next]_vars

\* ---- copyAllLorasSyntax on every selection and cache ----
InitCopy ==
    /\ bulkMode = TRUE
    /\ selectedLoras \in SUBSET Keys
    /\ loraMetadataCache \in MetadataCaches
    /\ \A k \in DOMAIN loraMetadataCache : loraMetadataCache[k].fileName = FileName(k)
    /\ cards = <<>>
    /\ btnActive = TRUE
    /\ panelHidden = FALSE
    /\ panelVisible = TRUE
    /\ bodyBulk = TRUE
    /\ isStripVisible = FALSE
    /\ strip = NoStrip
    /\ timers = <<>>
    /\ removePending = FALSE
    /\ countText = [count |-> Size(selectedLoras), caret |-> "up",
                    caretShown |-> Size(selectedLoras) > 0]
    /\ toasts = <<>>
    /\ clipboard = <<>>
    /\ copyPending = 0
    /\ lastOp = "load"
    /\ repeated = FALSE
    /\ threw = FALSE
    /\ expect = selectedLoras
    /\ FilterIdle
    /\ ReloadIdle
    /\ LoaderIdle
    /\ ImportIdle

NextCopy ==
    \/ CopyAllLorasSyntax
    \/ ClipboardResolve
    \/ ClipboardReject

SpecCopy == InitCopy /\ [][NextCopy]_vars

\* ---- filter manager on every page and stored text ----
FCur ==
    [context |-> context, filters |-> filters, tagsLoaded |-> tagsLoaded,
     storage |-> localStorage, pageFilters |-> pageFilters,
     panelHidden |-> filterPanelHidden, buttonActive |-> filterButtonActive,
     count |-> activeFiltersCount, tagsContainer |-> tagsContainer,
     tagEls |-> tagEls, baseContainer |-> baseModelTags, baseEls |-> baseEls,
     fetching |-> fetching, reloads |-> reloads, href |-> href,
     started |-> topTagsStarted, toasts |-> <<>>, threw |-> FALSE,
     reloadCalls |-> 0]

\* the page after a filter event left it in r
FCommit(r, name, kind, tag) ==
    /\ context' = r.context
    /\ filters' = r.filters
    /\ tagsLoaded' = r.tagsLoaded
    /\ localStorage' = r.storage
    /\ pageFilters' = r.pageFilters
    /\ filterPanelHidden' = r.panelHidden
    /\ filterButtonActive' = r.buttonActive
    /\ activeFiltersCount' = r.count
    /\ tagsContainer' = r.tagsContainer
    /\ tagEls' = r.tagEls
    /\ baseModelTags' = r.baseContainer
    /\ baseEls' = r.baseEls
    /\ fetching' = r.fetching
    /\ reloads' = r.reloads
    /\ href' = r.href
    /\ topTagsStarted' = r.started
    /\ filterOp' = [name |-> name, kind |-> kind, tag |-> tag,
                    threw |-> r.threw, reloadCalls |-> r.reloadCalls,
                    toasts |-> r.toasts]
    /\ UNCHANGED nonFilterVars

\* an assignment to window.location.href replaces the document: the handler
\* that made it runs to its end, and the next event is the load of the page
Navigating == href # NoHref

\* the page is loaded again: localStorage stays, the document and the page
\* state start over and a fresh manager is constructed
PageLoad ==
    /\ \E pf \in InitialPageFilters :
           FCommit(construct(context, localStorage, pf), "construct", "none", 0)
    /\ UNCHANGED reloadVars

\* a click on the filter button: its listener, then the one on document
ClickFilterButton ==
    /\ ~Navigating
    /\ FCommit(documentClick(toggleFilterPanel(FCur), "button"),
               "toggleFilterPanel", "none", 0)
    /\ UNCHANGED reloadVars

\* a click outside the filter panel and the filter button
ClickOutside ==
    /\ ~Navigating
    /\ FCommit(documentClick(FCur, "outside"), "clickOutside", "none", 0)
    /\ UNCHANGED reloadVars

\* a click on the filter panel that hits none of its controls
ClickInsidePanel ==
    /\ ~Navigating
    /\ ~filterPanelHidden
    /\ FCommit(documentClick(FCur, "panel"), "clickInside", "none", 0)
    /\ UNCHANGED reloadVars

TagClick(g) ==
    /\ ~Navigating
    /\ g \in DOMAIN tagEls
    /\ FCommit(documentClick(tagElClick(FCur, g), "panel"), "tagClick", "tags", g)
    /\ UNCHANGED reloadVars

BaseModelClick(m) ==
    /\ ~Navigating
    /\ m \in DOMAIN baseEls
    /\ FCommit(documentClick(baseModelTagClick(FCur, m), "panel"),
               "tagClick", "baseModel", m)
    /\ UNCHANGED reloadVars

\* applyFilters() called with its default, the notification
ApplyFilters ==
    /\ ~Navigating
    /\ FCommit(applyFilters(FCur, TRUE), "applyFilters", "none", 0)
    /\ UNCHANGED reloadVars

ClearFilters ==
    /\ ~Navigating
    /\ FCommit(clearFilters(FCur), "clearFilters", "none", 0)
    /\ UNCHANGED reloadVars

\* the fetch of loadTopTags settles: rejected, not OK, a body without
\* success and tags, or the tags
TopTagsResponse(outcome, tags) ==
    /\ ~Navigating
    /\ fetching.topTags
    /\ FCommit(loadTopTagsSettled(FCur, outcome, tags), "loadTopTags", outcome, 0)
    /\ UNCHANGED reloadVars

BaseModelsResponse(outcome) ==
    /\ ~Navigating
    /\ fetching.baseModels
    /\ FCommit(baseModelsSettled(FCur, outcome), "createBaseModelTags", outcome, 0)
    /\ UNCHANGED reloadVars

\* a pending reload resolves; more is TRUE when another call of its kind
\* is still pending
ReloadResolve(call, more) ==
    /\ ~Navigating
    /\ call \in reloads
    /\ FCommit(reloadResolved([FCur EXCEPT !.reloads = IF more THEN @ ELSE @ \ {call}],
                              call),
               call.op, "resolved", 0)
    /\ UNCHANGED reloadVars

\* a pending reload rejects
ReloadReject(call, more) ==
    /\ ~Navigating
    /\ call \in reloads
    /\ FCommit(reloadRejected([FCur EXCEPT !.reloads = IF more THEN @ ELSE @ \ {call}],
                              call),
               call.op, "rejected", 0)
    /\ UNCHANGED reloadVars

\* the calls of the reload the methods make
ReloadCalls ==
    {[op |-> "applyFilters", notify |-> n] : n \in BOOLEAN}
    \cup {[op |-> "clearFilters", notify |-> TRUE]}

TopTagsOutcomes == {"networkError", "notOk", "invalidFormat", "ok"}

InitFilter ==
    /\ bulkMode = FALSE
    /\ selectedLoras = {}
    /\ loraMetadataCache = <<>>
    /\ cards = <<>>
    /\ btnActive = FALSE
    /\ panelHidden = TRUE
    /\ panelVisible = FALSE
    /\ bodyBulk = FALSE
    /\ isStripVisible = FALSE
    /\ strip = NoStrip
    /\ timers = <<>>
    /\ removePending = FALSE
    /\ countText = InitialCount
    /\ toasts = <<>>
    /\ clipboard = <<>>
    /\ copyPending = 0
    /\ lastOp = "load"
    /\ repeated = FALSE
    /\ threw = FALSE
    /\ expect = {}
    /\ ReloadIdle
    /\ LoaderIdle
    /\ ImportIdle
    /\ \E ctx \in Contexts, pf \in InitialPageFilters :
           \/ FilterStart(ctx, <<>>, pf)
           \/ \E text \in StoredTexts :
                  FilterStart(ctx, SetItem(<<>>, storageKey([context |-> ctx]), text), pf)

NextFilter ==
    \/ PageLoad
    \/ ClickFilterButton
    \/ ClickOutside
    \/ ClickInsidePanel
    \/ \E g \in Tags : TagClick(g)
    \/ \E m \in BaseModelNames : BaseModelClick(m)
    \/ ApplyFilters
    \/ ClearFilters
    \/ \E outcome \in TopTagsOutcomes, tags \in {{}, Tags} : TopTagsResponse(outcome, tags)
    \/ \E outcome \in {"ok", "noSuccess", "reject"} : BaseModelsResponse(outcome)
    \/ \E call \in ReloadCalls, more \in BOOLEAN : ReloadResolve(call, more)
    \/ \E call \in ReloadCalls, more \in BOOLEAN : ReloadReject(call, more)

SpecFilter == InitFilter /\ [][NextFilter]_vars

\* ---- overlapping reloads of the LoRA page ----
\* SpecFilter keeps of the pending reloads only their kinds.  Here every
\* reload the tag clicks start is kept with the criteria the page state held
\* when it was called, and the listing shows what the reload that settled
\* last was asked with.
MaxRequests == 2

\* the click listener of a .tag-filter element, and the reload it asks for
ReloadTagClick(g) ==
    /\ ~Navigating
    /\ g \in DOMAIN tagEls
    /\ Len(requests) < MaxRequests
    /\ LET r == documentClick(tagElClick(FCur, g), "panel")
       IN  /\ FCommit(r, "tagClick", "tags", g)
           /\ requests' = IF r.reloadCalls > 0
                           THEN Append(requests, r.pageFilters)
                           ELSE requests
    /\ UNCHANGED listing

\* the i-th pending reload resolves: the listing is rendered from its
\* response and the applyFilters call that awaited it goes on
ReloadSettles(i) ==
    /\ ~Navigating
    /\ i \in DOMAIN requests
    /\ LET call == [op |-> "applyFilters", notify |-> FALSE]
       IN  FCommit(reloadResolved(
                       [FCur EXCEPT !.reloads = IF Len(requests) > 1 THEN @ ELSE @ \ {call}],
                       call),
                   "applyFilters", "resolved", 0)
    /\ listing' = requests[i]
    /\ requests' = RemoveAt(requests, i)

InitReload ==
    /\ BulkIdle
    /\ FilterIdle
    /\ ReloadIdle
    /\ LoaderIdle
    /\ ImportIdle

NextReload ==
    \/ ClickFilterButton
    \/ \E outcome \in TopTagsOutcomes, tags \in {{}, Tags} : TopTagsResponse(outcome, tags)
    \/ \E g \in Tags : ReloadTagClick(g)
    \/ \E i \in 1..MaxRequests : ReloadSettles(i)

SpecReload == InitReload /\ [][NextReload]_vars

\* ---- properties ----
CachedSelection == {k \in selectedLoras : k \in DOMAIN loraMetadataCache}
MarkedCards == {k \in DOMAIN cards : cards[k].selected}

\* C1: over a run of toggleCardSelection calls with no other operation in
\* between, a key is selected iff it was selected when the run started XOR
\* it was toggled an odd number of times (expect is that symmetric
\* difference, kept call by call).
C1_ToggleParity == selectedLoras = expect

\* a run of at least two toggles that has brought the selection back to empty
C1_Witness ==
    /\ lastOp = "toggleCardSelection"
    /\ repeated
    /\ selectedLoras = {}

\* C2: in selection mode every rendered card is marked selected iff its file
\* path is in state.selectedLoras.
C2_MarkersMatchSelection ==
    bulkMode => \A k \in DOMAIN cards : cards[k].selected <=> SetHas(selectedLoras, k)

\* a strip removal that left one card marked and another unmarked
C2_Witness ==
    /\ bulkMode
    /\ lastOp = "deselectItem"
    /\ \E k \in DOMAIN cards : cards[k].selected
    /\ \E k \in DOMAIN cards : ~cards[k].selected

\* C3: clearSelection() completes and leaves the selection empty, no card
\* marked, isStripVisible false and the strip element removed or awaiting
\* its removal callback.
C3_ClearSelectionCompletes ==
    lastOp = "clearSelection" =>
        /\ ~threw
        /\ selectedLoras = {}
        /\ MarkedCards = {}
        /\ ~isStripVisible
        /\ strip.present => removePending

\* C4: outside selection mode the selection is empty.
C4_NoSelectionOutsideBulkMode == ~bulkMode => selectedLoras = {}

\* selection mode was left after keys had been selected
C4_Witness ==
    /\ lastOp = "toggleBulkMode"
    /\ ~bulkMode
    /\ DOMAIN loraMetadataCache # {}
    /\ countText.count = 0

\* C5: every selected key has an entry in state.loraMetadataCache.
C5_SelectedKeysAreCached == selectedLoras \subseteq DOMAIN loraMetadataCache

\* a card click has just selected a key
C5_Witness ==
    /\ lastOp = "toggleCardSelection"
    /\ selectedLoras # {}

\* C6: applySelectionState() outside selection mode returns without changing
\* the page: selection, cache, card markers, count display and the rest.
C6_ApplyOutsideBulkModeIsNoOp ==
    [][(lastOp' = "applySelectionState" /\ ~bulkMode) =>
           (UNCHANGED pageVars /\ ~threw')]_vars

\* applySelectionState ran outside selection mode with cards rendered
C6_Witness ==
    /\ lastOp = "applySelectionState"
    /\ ~bulkMode
    /\ DOMAIN cards # {}

\* C7: a second applySelectionState() directly after a first leaves card
\* markers, selection and cache as the first left them.
C7_ApplyIsIdempotent ==
    [][(lastOp = "applySelectionState" /\ lastOp' = "applySelectionState") =>
           UNCHANGED <<cards, selectedLoras, loraMetadataCache>>]_vars

\* applySelectionState ran twice in a row in selection mode on marked cards
C7_Witness ==
    /\ lastOp = "applySelectionState"
    /\ repeated
    /\ bulkMode
    /\ MarkedCards # {}

\* the strength the usage hint of a cache entry stands for: the parsed
\* strength, 1 when the hint is absent, unparseable or has none
HintStrength(text) ==
    LET v == JSONParse(text)
    IN  IF v.kind = "object" /\ ~Falsy(v.strength) THEN v.strength ELSE "1"

\* C8: when some selected key has a cache entry, copyAllLorasSyntax() makes
\* exactly one clipboard write with one token per such key, and warns about
\* the number of missing keys iff there are any.
C8_CopyWritesCachedKeys ==
    (lastOp = "copyAllLorasSyntax" /\ CachedSelection # {}) =>
        /\ ~threw
        /\ Len(clipboard) = 1
        /\ Len(clipboard[1]) = Cardinality(CachedSelection)
        /\ \A k \in CachedSelection :
               \E i \in DOMAIN clipboard[1] :
                   clipboard[1][i] =
                       [fileName |-> loraMetadataCache[k].fileName,
                        strength |-> HintStrength(loraMetadataCache[k].usageTips)]
        /\ (selectedLoras \ CachedSelection # {}) <=>
               \E i \in DOMAIN toasts :
                   toasts[i] = Toast("Missing data for LoRAs",
                                     Cardinality(selectedLoras \ CachedSelection), "warning")

C10_DefaultStrength ==
    (lastOp = "copyAllLorasSyntax" /\ selectedLoras # {}
        /\ selectedLoras \subseteq DOMAIN loraMetadataCache) =>
        /\ ~threw
        /\ Len(clipboard) = 1
        /\ \A k \in selectedLoras :
               LET v == JSONParse(loraMetadataCache[k].usageTips)
               IN  (v.kind # "object" \/ v.strength = "undefined") =>
                       \E i \in DOMAIN clipboard[1] :
                           clipboard[1][i] = [fileName |-> FileName(k), strength |-> "1"]

\* C11: when navigator.clipboard.writeText rejects, copyAllLorasSyntax()
\* still completes without throwing, shows exactly one error notification
\* ('Copy failed') and no success notification, and neither the call nor the
\* rejection changes state.selectedLoras or state.loraMetadataCache.
C11_ClipboardFailureIsReported ==
    [][/\ lastOp' = "writeTextRejected" =>
              /\ ~threw'
              /\ Cardinality({i \in DOMAIN toasts' : toasts'[i].type = "error"}) = 1
              /\ \E i \in DOMAIN toasts' : toasts'[i] = Toast("Copy failed", 0, "error")
              /\ \A i \in DOMAIN toasts' : toasts'[i].type # "success"
       /\ lastOp' \in {"copyAllLorasSyntax", "writeTextRejected"} =>
              UNCHANGED <<selectedLoras, loraMetadataCache>>]_vars

\* the write of a partly cached selection was rejected: the missing-data
\* warning, then the failure
C11_Witness ==
    /\ lastOp = "writeTextRejected"
    /\ Len(toasts) = 2
    /\ Len(clipboard) = 1

\* ---- properties of the filter managers ----
\* the key the manager stores its criteria under
FilterKey == storageKey([context |-> context])

\* the names a field of the criteria ranges over
Names(kind) == IF kind = "tags" THEN Tags ELSE BaseModelNames

OtherField(kind) == IF kind = "tags" THEN "baseModel" ELSE "tags"

\* the manager finds a reload to call
HasReload ==
    IF context.cls = "RecipeFilterManager" THEN context.collaborator
    ELSE callsReload([context |-> context])

\* C12: a click on a tag element flips that tag's membership in its field of
\* this.filters and nothing else in the criteria, writes the new criteria to
\* localStorage under the manager's key and calls the reload exactly once,
\* without notification.
C12_TagClickFlipsMembership ==
    [][(filterOp'.name = "tagClick" /\ HasReload) =>
           LET kind == filterOp'.kind
               tag == filterOp'.tag
           IN  /\ ~filterOp'.threw
               /\ Includes(filters'[kind], tag) <=> ~Includes(filters[kind], tag)
               /\ \A x \in Names(kind) \ {tag} :
                      Includes(filters'[kind], x) <=> Includes(filters[kind], x)
               /\ filters'[OtherField(kind)] = filters[OtherField(kind)]
               /\ FilterKey \in DOMAIN localStorage'
               /\ localStorage'[FilterKey] = JSONStringify(filters')
               /\ filterOp'.reloadCalls = 1
               /\ [op |-> "applyFilters", notify |-> FALSE] \in reloads'
               /\ filterOp'.toasts = <<>>]_vars

NoDuplicates(seq) == \A i, j \in DOMAIN seq : seq[i] = seq[j] => i = j

\* C13: both fields of this.filters are arrays and neither holds a name
\* twice, whatever localStorage and the page state held when the manager
\* was constructed.
C13_CriteriaAreArraysWithoutDuplicates ==
    \A kind \in {"baseModel", "tags"} :
        IsArray(filters[kind]) /\ NoDuplicates(filters[kind].v)

\* the text under the manager's key is missing or is not JSON
StoredMissingOrInvalid ==
    FilterKey \notin DOMAIN localStorage \/ localStorage[FilterKey] = InvalidText

NoToggleActive ==
    /\ \A g \in DOMAIN tagEls : ~tagEls[g]
    /\ \A m \in DOMAIN baseEls : ~baseEls[m]

\* C14: a manager constructed while its localStorage entry is missing or not
\* valid JSON is constructed without an error and holds the empty criteria,
\* the count indicator hidden and no tag element active.
C14_BadStorageGivesEmptyCriteria ==
    (filterOp.name = "construct" /\ StoredMissingOrInvalid) =>
        /\ ~filterOp.threw
        /\ filters = EmptyFilters
        /\ ~activeFiltersCount.shown
        /\ NoToggleActive

\* a manager constructed over a stored text that is not JSON
C14_Witness ==
    /\ filterOp.name = "construct"
    /\ FilterKey \in DOMAIN localStorage
    /\ localStorage[FilterKey] = InvalidText

\* C15: a manager constructed right after applyFilters() ran on a manager
\* holding criteria F (called directly or by a tag click) holds F, field by
\* field and in the same order.
C15_StorageRoundTrip ==
    [][(/\ filterOp'.name = "construct"
        /\ \/ filterOp.name = "applyFilters" /\ filterOp.kind = "none"
           \/ filterOp.name = "tagClick" /\ ~filterOp.threw) =>
           filters' = filters]_vars

\* a fresh manager that read two tags, the later name first, and a base model
C15_Witness ==
    /\ filterOp.name = "construct"
    /\ filters.tags = Arr(<<2, 1>>)
    /\ filters.baseModel = Arr(<<"SDXL">>)

\* C16: clearFilters() leaves the criteria empty, no entry under the
\* manager's key (a fresh manager starts empty), no tag element active and
\* the count indicator hidden, and has called the reload exactly once.
C16_ClearFiltersResets ==
    (filterOp.name = "clearFilters" /\ filterOp.kind = "none") =>
        /\ ~filterOp.threw
        /\ filters = EmptyFilters
        /\ FilterKey \notin DOMAIN localStorage
        /\ \A pf \in InitialPageFilters :
               construct(context, localStorage, pf).filters = EmptyFilters
        /\ NoToggleActive
        /\ ~activeFiltersCount.shown
        /\ HasReload =>
               /\ filterOp.reloadCalls = 1
               /\ [op |-> "clearFilters", notify |-> TRUE] \in reloads

\* clearFilters ran with tag elements of both kinds rendered while the
\* reload of an earlier tag click was still pending
C16_Witness ==
    /\ filterOp.name = "clearFilters"
    /\ filterOp.kind = "none"
    /\ DOMAIN tagEls # {}
    /\ DOMAIN baseEls # {}
    /\ [op |-> "applyFilters", notify |-> FALSE] \in reloads

\* C17: a manager instance starts loadTopTags at most once, at the first
\* opening of its panel: an opening leaves the number of calls at one, and
\* the number changes only at an opening that finds it zero.
C17_TagsFetchedOnceAtFirstOpen ==
    [][/\ topTagsStarted' <= 1
       /\ filterOp'.name # "construct" =>
              /\ (filterPanelHidden /\ ~filterPanelHidden') => topTagsStarted' = 1
              /\ topTagsStarted' # topTagsStarted =>
                     /\ filterPanelHidden /\ ~filterPanelHidden'
                     /\ topTagsStarted = 0]_vars

\* the panel was opened again after the only fetch had failed
C17_Witness ==
    /\ filterOp.name = "toggleFilterPanel"
    /\ ~filterPanelHidden
    /\ tagsContainer = "error"
    /\ topTagsStarted = 1

\* C18: a click on the filter button flips the panel between closed and
\* open, a click outside panel and button leaves it closed, a click inside
\* the open panel leaves it open, and nothing else moves it.
C18_PanelTransitions ==
    [][/\ filterOp'.name = "toggleFilterPanel" => filterPanelHidden' = ~filterPanelHidden
       /\ filterOp'.name = "clickOutside" => filterPanelHidden'
       /\ filterOp'.name = "clickInside" => (~filterPanelHidden /\ ~filterPanelHidden')
       /\ filterOp'.name \notin {"toggleFilterPanel", "clickOutside", "construct"} =>
              filterPanelHidden' = filterPanelHidden]_vars

\* the button opened the panel again after the tags had been rendered
C18_Witness ==
    /\ filterOp.name = "toggleFilterPanel"
    /\ ~filterPanelHidden
    /\ tagsContainer = "tags"

\* C19: when the reload rejects, applyFilters and clearFilters still resolve,
\* and RecipeFilterManager.applyFilters has navigated to the recipes URL with
\* the active base models and tags in the query string.
C19_ReloadFailureIsCaught ==
    filterOp.kind = "rejected" =>
        /\ ~filterOp.threw
        /\ (context.cls = "RecipeFilterManager" /\ filterOp.name = "applyFilters") =>
               href = [path |-> "/loras/recipes",
                       base_models |-> filters.baseModel.v,
                       tags |-> filters.tags.v]

\* C20: when the fetch of loadTopTags fails (rejected, not OK, or a body
\* without success and tags), loadTopTags completes without throwing, the tag
\* container shows the error element, and the criteria and localStorage are
\* as they were.
C20_TagFetchFailureIsInline ==
    [][(filterOp'.name = "loadTopTags" /\ filterOp'.kind # "ok") =>
           /\ ~filterOp'.threw
           /\ tagsContainer' = "error"
           /\ tagEls' = <<>>
           /\ UNCHANGED <<filters, localStorage, pageFilters>>]_vars

\* the response lacked success and tags while criteria were active
C20_Witness ==
    /\ filterOp.name = "loadTopTags"
    /\ filterOp.kind = "invalidFormat"
    /\ hasActiveFilters([filters |-> filters])

\* ---- further properties of the selection manager ----
\* C21: deselectItem(k) on a thumbnail of the strip completes, removes k and
\* no other key from state.selectedLoras, unmarks the card of k and no other
\* card, leaves the strip with the thumbnails of the keys still selected, and
\* when no key is left the strip is no longer visible and awaits its removal.
C21_DeselectItemRemovesOneKey ==
    [][lastOp' = "deselectItem" =>
           /\ ~threw'
           /\ \E k \in strip.thumbs :
                  /\ selectedLoras' = selectedLoras \ {k}
                  /\ MarkedCards' = MarkedCards \ {k}
           /\ strip'.present => strip'.thumbs = CachedSelection'
           /\ selectedLoras' = {} =>
                  /\ ~isStripVisible'
                  /\ strip'.present => removePending']_vars

\* C23: once no callback of toggleBulkMode is pending, the bulk panel has
\* class 'visible' and not 'hidden' in selection mode, and class 'hidden' and
\* not 'visible' outside it.
C23_PanelSettlesToMode ==
    timers = <<>> =>
        /\ bulkMode => (panelVisible /\ ~panelHidden)
        /\ ~bulkMode => (panelHidden /\ ~panelVisible)

\* C24: while the strip is visible its thumbnails are the selected keys that
\* have a cache entry, and toggleThumbnailStrip() with an empty selection
\* returns without changing the page.
C24_StripShowsCachedSelection ==
    [][/\ (isStripVisible' /\ strip'.present) => strip'.thumbs = CachedSelection'
       /\ (lastOp' = "toggleThumbnailStrip" /\ selectedLoras = {}) =>
              (UNCHANGED pageVars /\ ~threw')]_vars

\* a removal from the strip left it visible with the other key
C24_Witness ==
    /\ lastOp = "deselectItem"
    /\ isStripVisible
    /\ strip.present
    /\ strip.thumbs # {}
    /\ strip.thumbs # DOMAIN loraMetadataCache

\* C25: no step removes a key from state.loraMetadataCache, and a
\* deselecting card click, deselectItem, clearSelection and leaving selection
\* mode leave the cache as it was.
C25_CacheOnlyGrows ==
    [][/\ DOMAIN loraMetadataCache \subseteq DOMAIN loraMetadataCache'
       /\ lastOp' \in {"deselectItem", "clearSelection"} =>
              loraMetadataCache' = loraMetadataCache
       /\ (lastOp' = "toggleBulkMode" /\ bulkMode) =>
              loraMetadataCache' = loraMetadataCache
       /\ (lastOp' = "toggleCardSelection" /\ selectedLoras' \subseteq selectedLoras) =>
              loraMetadataCache' = loraMetadataCache]_vars

\* clearSelection emptied a selection and the cache still has its entries
C25_Witness ==
    /\ lastOp = "clearSelection"
    /\ ~threw
    /\ selectedLoras = {}
    /\ DOMAIN loraMetadataCache = Keys

\* C27: no BulkManager operation ends by exhausting the call stack.
C27_OperationsTerminate ==
    lastOp \in {"toggleCardSelection", "toggleBulkMode", "clearSelection",
                "toggleThumbnailStrip", "deselectItem", "applySelectionState",
                "rerender"} => ~threw

\* C28: isStripVisible is true iff the strip element is in the document and
\* not awaiting its removal callback.
C28_StripFlagMatchesElement ==
    isStripVisible <=> (strip.present /\ ~removePending)

\* ---- further properties of the filter managers ----
\* C26: while the filter panel is closed and no applyFilters call awaits its
\* reload, the filter button has class 'active' iff a tag or a base model is
\* active in this.filters.
C26_ButtonShowsActiveFilters ==
    (filterPanelHidden /\ ~\E call \in reloads : call.op = "applyFilters") =>
        (filterButtonActive <=> hasActiveFilters([filters |-> filters]))

\* C22: a tag click starts its reload at once, whatever reloads are pending,
\* and leaves those pending; a reload that resolves renders the listing of
\* its own request and touches neither this.filters nor localStorage.  So
\* reloads overlap, and the listing is the one of the reload that resolved
\* last.
C22_ReloadsOverlap ==
    [][/\ (filterOp'.name = "tagClick" /\ ~filterOp'.threw) =>
              /\ requests' = Append(requests, filters')
              /\ localStorage'[FilterKey] = JSONStringify(filters')
       /\ filterOp'.kind = "resolved" =>
              /\ \E i \in DOMAIN requests :
                     /\ listing' = requests[i]
                     /\ requests' = RemoveAt(requests, i)
              /\ filters' = filters
              /\ localStorage' = localStorage]_vars

\* Every reload has resolved and the listing is not the one of the criteria:
\* the request of the latest click carried this.filters, so the reload that
\* resolved last was an older one.
C22_Witness ==
    /\ filterOp.kind = "resolved"
    /\ requests = <<>>
    /\ reloads = {}
    /\ listing # filters
    /\ pageFilters = filters
    /\ localStorage[FilterKey] = JSONStringify(filters)

\* ---- properties of the LoRA loader node ----
\* C29: in no event does a callback body start while another is executing,
\* so at most one body runs in an event, and between events isUpdating is
\* false, also after a body that threw.
C29_CallbacksNeverNest ==
    /\ ~isUpdating
    /\ ~loaderOp.nested
    /\ loaderOp.bodies <= 1

\* the input callback threw while merging the text into a widget value that
\* is no array
C29_Witness ==
    /\ loaderOp.name = "inputCallback"
    /\ loaderOp.threw
    /\ loaderOp.bodies = 1
    /\ lorasValue = NotArray

\* ---- properties of ImportManager.saveRecipe ----
\* the downloads that resolved OK
OkDownloads == {j \in DOMAIN outcomes : outcomes[j] = "ok"}

\* C30: the downloads are requested for the missing LoRAs in list order, each
\* once, the next only after the one before has settled, whatever the
\* outcomes; completedDownloads counts the OK ones and never exceeds their
\* number; and once the loop has run saveRecipe ends with every LoRA
\* requested, the socket closed, the modal closed and the overlay hidden.
C30_DownloadsAreSequential ==
    /\ Len(downloads) <= missingCount
    /\ \A j \in DOMAIN downloads : downloads[j] = j
    /\ Len(downloads) - Len(outcomes) = (IF savePc = "download" THEN 1 ELSE 0)
    /\ completedDownloads = Cardinality(OkDownloads)
    /\ completedDownloads <= missingCount
    /\ (savePc = "done" /\ ws # "none") =>
           /\ Len(downloads) = missingCount
           /\ ws = "closed"
           /\ ~importModalOpen
           /\ loading.shown = "hidden"

\* saveRecipe is done: the first download was rejected, a later one was not
\* OK and another succeeded
C30_Witness ==
    /\ savePc = "done"
    /\ ws = "closed"
    /\ Len(outcomes) = missingCount
    /\ outcomes[1] = "rejected"
    /\ \E j \in DOMAIN outcomes : outcomes[j] = "notOk"
    /\ completedDownloads > 0
====
